---- MODULE Spec2Model ----
(***************************************************************************)
(* The audio service of make-singer: MasterService (mix, vocal overlay,    *)
(* mastering chain, upload), EncoderService and ArchiverService, with the  *)
(* scratch directory, the blob store and the awaited downloads as state.   *)
(*                                                                         *)
(* Units.  Samples are signed 16 bit integers.  Decibel values are kept in *)
(* tenths of a dB (-10 is -1.0 dB), linear gain factors in 1/10000, linear *)
(* volumes and pans in 1/1000 (1000 is 1.0).  A length len(seg) is in      *)
(* milliseconds, as pydub reports it; a buffer also has a frame count.     *)
(***************************************************************************)
EXTENDS Integers, Sequences, FiniteSets, TLC

VARIABLES storage, slots, req, dirs, files, bucket, call, ret

vars == <<storage, slots, req, dirs, files, bucket, call, ret>>

(***************************************************************************)
(* Bounds of the model.                                                    *)
(***************************************************************************)
NumTones == 3
MaxStems == 2
MaxSettings == 2
MaxBufFrames == 3
MaxTakes == 2
MaxConcStems == 1

(***************************************************************************)
(* Arithmetic helpers.                                                     *)
(***************************************************************************)
Min2(a, b) == IF a <= b THEN a ELSE b

Max2(a, b) == IF a >= b THEN a ELSE b

Abs(x) == IF x >= 0 THEN x ELSE -x

RECURSIVE Gcd(_, _)
Gcd(a, b) == IF b = 0 THEN a ELSE Gcd(b, a % b)

\* Python's int(): truncation towards zero of n / d, d > 0.
Trunc(n, d) == IF n >= 0 THEN n \div d ELSE -((-n) \div d)

\* Python's round() of the quotient n / d (ties go to the even integer).
RoundHalfEven(n, d) ==
    LET q == n \div d
        r == n % d
    IN  IF 2 * r < d THEN q
        ELSE IF 2 * r > d THEN q + 1
        ELSE IF q % 2 = 0 THEN q ELSE q + 1

(***************************************************************************)
(* pydub's AudioSegment, as far as the services use it.  A segment is its  *)
(* frame rate, channel count, sample width and its frames; a frame holds   *)
(* one sample per channel.                                                 *)
(***************************************************************************)
SILENT_FRAME_RATE == 11025

NoAudio == [frame_rate |-> 0, channels |-> 0, sample_width |-> 0, data |-> <<>>]

FrameCount(seg) == Len(seg.data)

MaxPossibleAmplitude(seg) == 2 ^ (8 * seg.sample_width - 1)

\* audioop clips every sample it writes to the signed range of the width.
Clip(v, seg) ==
    LET m == MaxPossibleAmplitude(seg)
    IN  IF v > m - 1 THEN m - 1 ELSE IF v < -m THEN -m ELSE v

\* len(seg): round(1000 * frame_count / frame_rate), in milliseconds.
MsLen(seg) ==
    IF seg.frame_rate = 0 THEN 0
    ELSE RoundHalfEven(1000 * FrameCount(seg), seg.frame_rate)

\* AudioSegment.silent(duration): mono, 16 bit, 11025 Hz,
\* int(frame_rate * duration / 1000) frames of zero.
Silent(duration) ==
    [frame_rate |-> SILENT_FRAME_RATE, channels |-> 1, sample_width |-> 2,
     data |-> [i \in 1..((SILENT_FRAME_RATE * duration) \div 1000) |-> <<0>>]]

\* seg.max: the largest absolute sample value (audioop.max).
MaxOfSet(S) ==
    IF S = {} THEN 0
    ELSE LET x == CHOOSE y \in S : \A z \in S : z <= y IN x

MaxSample(seg) ==
    MaxOfSet({Abs(seg.data[i][c]) : i \in 1..Len(seg.data), c \in 1..seg.channels})

\* audioop.mul by the factor num / den: clip, then round towards -infinity.
ApplyGainRatio(seg, num, den) ==
    [seg EXCEPT !.data =
        [i \in 1..Len(seg.data) |->
            [c \in 1..seg.channels |-> Clip((seg.data[i][c] * num) \div den, seg)]]]

\* set_channels: mono to stereo copies the sample, stereo to mono averages.
SetChannels(seg, ch) ==
    IF seg.channels = ch THEN seg
    ELSE IF ch = 2
    THEN [seg EXCEPT !.channels = 2,
                     !.data = [i \in 1..Len(seg.data) |->
                                  <<seg.data[i][1], seg.data[i][1]>>]]
    ELSE [seg EXCEPT !.channels = 1,
                     !.data = [i \in 1..Len(seg.data) |->
                                  <<(seg.data[i][1] + seg.data[i][2]) \div 2>>]]

\* set_frame_rate: audioop.ratecv, which walks the input with the counter
\* d (starting at -outrate, +outrate per frame read, -inrate per frame
\* written) and writes the linear interpolation of the last two frames read.
SetFrameRate(seg, rate) ==
    IF seg.frame_rate = rate \/ Len(seg.data) = 0
    THEN [seg EXCEPT !.frame_rate = rate]
    ELSE LET g == Gcd(seg.frame_rate, rate)
             inr == seg.frame_rate \div g
             outr == rate \div g
             n == Len(seg.data)
             outN == ((n - 1) * outr) \div inr + 1
             Prev(k, c) == IF k = 0 THEN 0 ELSE seg.data[k][c]
             At(o, c) ==
                 LET k == (o * inr + outr - 1) \div outr
                     d == k * outr - o * inr
                 IN  (Prev(k, c) * d + seg.data[k + 1][c] * (outr - d)) \div outr
         IN  [seg EXCEPT !.frame_rate = rate,
                         !.data = [o \in 1..outN |->
                                      [c \in 1..seg.channels |-> At(o - 1, c)]]]

SetSampleWidth(seg, width) == [seg EXCEPT !.sample_width = width]

\* AudioSegment._sync: both segments at the larger channel count, frame
\* rate and sample width of the two.
Sync(a, b) ==
    LET ch == Max2(a.channels, b.channels)
        fr == Max2(a.frame_rate, b.frame_rate)
        sw == Max2(a.sample_width, b.sample_width)
        Conv(s) == SetSampleWidth(SetFrameRate(SetChannels(s, ch), fr), sw)
    IN  <<Conv(a), Conv(b)>>

\* base.overlay(seg) at position 0: the result has the frames of the
\* (synced) base; seg is cut to fit and added sample by sample, clipped.
Overlay(base, seg) ==
    LET s == Sync(base, seg)
        a == s[1]
        b == s[2]
        m == Min2(Len(a.data), Len(b.data))
    IN  [a EXCEPT !.data =
            [i \in 1..Len(a.data) |->
                IF i <= m
                THEN [c \in 1..a.channels |-> Clip(a.data[i][c] + b.data[i][c], a)]
                ELSE a.data[i]]]

\* db_to_float(db) = 10 ^ (db / 20), in 1/10000, for the decibel values
\* (in tenths of a dB) the profiles and normalize() use.
DbToFloat(db) ==
    CASE db = -200 -> 1000
      [] db = -180 -> 1259
      [] db = -150 -> 1778
      [] db = -10 -> 8913
      [] db = -5 -> 9441
      [] db = -3 -> 9661
      [] db = -1 -> 9886
      [] db = 0 -> 10000
      [] db = 10 -> 11220
      [] db = 20 -> 12589

\* seg + db: apply_gain(db).
ApplyGainDb(seg, db) == ApplyGainRatio(seg, DbToFloat(db), 10000)

\* 20 * log10(max(volume, 0.001)) dB is the factor max(volume, 0.001).
VolumeGain(seg, volume) == ApplyGainRatio(seg, Max2(volume, 1), 1000)

\* seg.pan(pan): the boosted and the reduced side's factors, in 1/10000.
PanBoost(pan) == IF Abs(pan) = 1000 THEN 14142 ELSE 11892

PanReduce(pan) == IF Abs(pan) = 1000 THEN 0 ELSE 5858

PanValid(pan) == -1000 <= pan /\ pan <= 1000

\* apply_gain_stereo: a mono segment feeds both sides; the result is stereo.
Pan(seg, pan) ==
    LET lf == IF pan < 0 THEN PanBoost(pan) ELSE PanReduce(pan)
        rf == IF pan < 0 THEN PanReduce(pan) ELSE PanBoost(pan)
        st == SetChannels(seg, 2)
    IN  [st EXCEPT !.data =
            [i \in 1..Len(st.data) |->
                <<Clip((st.data[i][1] * lf) \div 10000, st),
                  Clip((st.data[i][2] * rf) \div 10000, st)>>]]

(***************************************************************************)
(* MasterService._mix_stems.  A settings entry is a dict: a function from  *)
(* the keys it holds; d.get(key, default) reads it.                        *)
(***************************************************************************)
Get(d, key, default) == IF key \in DOMAIN d THEN d[key] ELSE default

NoError == [type |-> "none", at |-> "none"]

Raise(type, at) == [type |-> type, at |-> at]

HasSolo(mix_settings) ==
    \E k \in 1..Len(mix_settings) : Get(mix_settings[k], "solo", FALSE)

MaxLength(stems) == MaxOfSet({MsLen(stems[k]) : k \in 1..Len(stems)})

MixBaseFirstStem(stems) == stems[1]

MixBase(stems) == Silent(MaxLength(stems))

SettingsAt(mix_settings, i) ==
    IF i <= Len(mix_settings) THEN mix_settings[i] ELSE <<>>

SkippedSoloOverridesMute(settings, has_solo) ==
    IF has_solo THEN ~Get(settings, "solo", FALSE) ELSE Get(settings, "mute", FALSE)

\* The two `continue` tests of the loop.
Skipped(settings, has_solo) ==
    \/ Get(settings, "mute", FALSE)
    \/ has_solo /\ ~Get(settings, "solo", FALSE)

\* The loop over the stems from index i on; mixed is the accumulated
\* buffer, overlaid the indices overlaid so far.
RECURSIVE MixLoop(_, _, _, _, _, _)
MixLoop(stems, mix_settings, has_solo, i, mixed, overlaid) ==
    IF i > Len(stems)
    THEN [error |-> NoError, audio |-> mixed, overlaid |-> overlaid]
    ELSE LET settings == SettingsAt(mix_settings, i)
             volume == Get(settings, "volume", 1000)
             pan == Get(settings, "pan", 0)
             s1 == IF volume # 1000 THEN VolumeGain(stems[i], volume) ELSE stems[i]
         IN  IF Skipped(settings, has_solo)
             THEN MixLoop(stems, mix_settings, has_solo, i + 1, mixed, overlaid)
             ELSE IF pan # 0 /\ ~PanValid(pan)
             THEN [error |-> Raise("ValueError", "pan"), audio |-> NoAudio,
                   overlaid |-> overlaid]
             ELSE MixLoop(stems, mix_settings, has_solo, i + 1,
                          Overlay(mixed, IF pan # 0 THEN Pan(s1, pan) ELSE s1),
                          overlaid \cup {i})

MixStemsNoEmptyCheck(stems, mix_settings) ==
    MixLoop(stems, mix_settings, HasSolo(mix_settings), 1, MixBase(stems), {})

MixStems(stems, mix_settings) ==
    IF stems = <<>>
    THEN [error |-> Raise("ValueError", "_mix_stems"), audio |-> NoAudio,
          overlaid |-> {}]
    ELSE MixLoop(stems, mix_settings, HasSolo(mix_settings), 1, MixBase(stems), {})

(***************************************************************************)
(* MasterService._apply_mastering and the pydub effects it calls.          *)
(***************************************************************************)
PROFILES ==
    [clean |-> [eq |-> [low |-> 0, mid |-> 0, high |-> 0],
                compression_threshold |-> -200, compression_ratio |-> 2,
                limiter_threshold |-> -10, target_lufs |-> -14],
     warm |-> [eq |-> [low |-> 20, mid |-> -10, high |-> -10],
               compression_threshold |-> -180, compression_ratio |-> 3,
               limiter_threshold |-> -5, target_lufs |-> -12],
     loud |-> [eq |-> [low |-> 10, mid |-> 10, high |-> 20],
               compression_threshold |-> -150, compression_ratio |-> 4,
               limiter_threshold |-> -3, target_lufs |-> -10]]

\* 2 * pi * cutoff, rounded down.
TwoPiF(cutoff) == (6283 * cutoff) \div 1000

\* low_pass_filter: y[i] = y[i-1] + alpha * (x[i] - y[i-1]), y[0] = x[0],
\* alpha = dt / (RC + dt) kept in 1/1000; the running value is kept as an
\* integer here.
RECURSIVE LowPassFrom(_, _, _, _, _)
LowPassFrom(data, i, last, alpha, acc) ==
    IF i > Len(data) THEN acc
    ELSE LET nxt == [c \in 1..Len(last) |->
                        last[c] + Trunc(alpha * (data[i][c] - last[c]), 1000)]
         IN  LowPassFrom(data, i + 1, nxt, alpha, Append(acc, nxt))

LowPassFilter(seg, cutoff) ==
    LET alpha == (1000 * TwoPiF(cutoff)) \div (seg.frame_rate + TwoPiF(cutoff))
    IN  [seg EXCEPT !.data = LowPassFrom(seg.data, 2, seg.data[1], alpha, <<seg.data[1]>>)]

\* high_pass_filter: y[i] = alpha * (y[i-1] + x[i] - x[i-1]), y[0] = x[0],
\* alpha = RC / (RC + dt) in 1/1000, each output clipped.
RECURSIVE HighPassFrom(_, _, _, _, _, _)
HighPassFrom(seg, data, i, last, alpha, acc) ==
    IF i > Len(data) THEN acc
    ELSE LET nxt == [c \in 1..Len(last) |->
                        Clip(Trunc(alpha * (last[c] + data[i][c] - data[i - 1][c]), 1000),
                             seg)]
         IN  HighPassFrom(seg, data, i + 1, nxt, alpha, Append(acc, nxt))

HighPassFilter(seg, cutoff) ==
    LET alpha == (1000 * seg.frame_rate) \div (seg.frame_rate + TwoPiF(cutoff))
    IN  [seg EXCEPT !.data =
            HighPassFrom(seg, seg.data, 2, seg.data[1], alpha, <<seg.data[1]>>)]

\* compress_dynamic_range(seg, threshold, ratio), as a static curve: a
\* sample within the threshold amplitude passes, the part of a sample above
\* it is divided by the ratio.  The frame count is kept.
CompressDynamicRange(seg, threshold, ratio) ==
    LET t == (MaxPossibleAmplitude(seg) * DbToFloat(threshold)) \div 10000
        F(s) == IF Abs(s) <= t THEN s
                ELSE IF s > 0 THEN t + (s - t) \div ratio
                ELSE -(t + (-s - t) \div ratio)
    IN  [seg EXCEPT !.data =
            [i \in 1..Len(seg.data) |->
                [c \in 1..seg.channels |-> F(seg.data[i][c])]]]

NORMALIZE_HEADROOM == -1

\* pydub.effects.normalize(seg), headroom 0.1 dB: a silent segment is
\* returned as it is, any other is scaled so that its peak is
\* max_possible_amplitude * db_to_float(-0.1).
Normalize(seg) ==
    LET peak == MaxSample(seg)
        target == (MaxPossibleAmplitude(seg) * DbToFloat(NORMALIZE_HEADROOM)) \div 10000
    IN  IF peak = 0 THEN seg ELSE ApplyGainRatio(seg, target, peak)

\* audio.max_dBFS > limiter_threshold, compared as amplitudes.
AboveDb(seg, db) ==
    MaxSample(seg) * 10000 > MaxPossibleAmplitude(seg) * DbToFloat(db)

LimitWrongSign(seg, limiter_threshold) ==
    IF AboveDb(seg, limiter_threshold)
    THEN ApplyGainRatio(seg, MaxSample(seg),
                        (MaxPossibleAmplitude(seg) * DbToFloat(limiter_threshold)) \div 10000)
    ELSE seg

\* audio - (audio.max_dBFS - limiter_threshold): the gain that takes the
\* peak to the threshold amplitude.
Limit(seg, limiter_threshold) ==
    IF AboveDb(seg, limiter_threshold)
    THEN ApplyGainRatio(seg,
                        (MaxPossibleAmplitude(seg) * DbToFloat(limiter_threshold)) \div 10000,
                        MaxSample(seg))
    ELSE seg

\* The EQ stage: each filter indexes the first frame, so a buffer with no
\* frame raises IndexError there.
ApplyEq(audio, eq) ==
    LET low == Get(eq, "low", 0)
        high == Get(eq, "high", 0)
        a1 == IF low # 0 THEN ApplyGainDb(LowPassFilter(audio, 200), low) ELSE audio
        a2 == IF high # 0 THEN ApplyGainDb(HighPassFilter(a1, 8000), high) ELSE a1
    IN  IF (low # 0 \/ high # 0) /\ FrameCount(audio) = 0
        THEN [error |-> Raise("IndexError", "_apply_mastering"), audio |-> NoAudio]
        ELSE [error |-> NoError, audio |-> a2]

ApplyMastering(audio, settings) ==
    LET e == ApplyEq(audio, Get(settings, "eq", <<>>))
        threshold == Get(settings, "compression_threshold", -200)
        ratio == Get(settings, "compression_ratio", 2)
        limiter_threshold == Get(settings, "limiter_threshold", -10)
    IN  IF e.error # NoError THEN e
        ELSE [error |-> NoError,
              audio |-> Limit(Normalize(CompressDynamicRange(e.audio, threshold, ratio)),
                              limiter_threshold)]

\* _calculate_lufs: the samples over full scale, squared and averaged; the
\* result is -70 when the RMS is 0 and 20 * log10(rms) - 0.691 otherwise,
\* kept here as the mean square in 1/32768 of full scale.
RECURSIVE SumSquares(_, _)
SumSquares(data, i) ==
    IF i > Len(data) THEN 0
    ELSE LET f == data[i]
         IN  (IF Len(f) = 2 THEN (f[1] * f[1]) \div 32768 + (f[2] * f[2]) \div 32768
              ELSE (f[1] * f[1]) \div 32768)
             + SumSquares(data, i + 1)

CalculateLufs(audio) ==
    IF MaxSample(audio) = 0
    THEN [floor |-> TRUE, mean_square |-> 0]
    ELSE [floor |-> FALSE,
          mean_square |-> SumSquares(audio.data, 1)
                             \div (FrameCount(audio) * audio.channels)]

\* mastered.max_dBFS: the peak over full scale (-infinity dB when 0).
MaxDbfs(audio) ==
    [peak |-> MaxSample(audio), full_scale |-> MaxPossibleAmplitude(audio)]

(***************************************************************************)
(* StorageService, the scratch directory and the remote files.  A path is  *)
(* <<directory, name, index>>; files maps the paths that exist to their    *)
(* content, bucket the keys of the blob store to the objects stored.       *)
(***************************************************************************)
\* The audio behind the URLs: short tones of several rates and lengths.
Tone(rate, ch, n, frame) ==
    [frame_rate |-> rate, channels |-> ch, sample_width |-> 2,
     data |-> [i \in 1..n |->
                  [c \in 1..ch |-> IF i % 2 = 1 THEN frame[c] ELSE -(frame[c] \div 2)]]]

Catalogue ==
    << Tone(8000, 1, 12, <<12000>>),
       Tone(22050, 2, 50, <<-20000, 8000>>),
       Tone(11025, 1, 30, <<-32768>>),
       Tone(22050, 1, 0, <<0>>),
       Tone(8000, 2, 20, <<1, -1>>) >>

UrlNames == <<"a.wav", "b.wav", "c.wav", "d.wav", "e.wav">>

WavFile(audio) == [format |-> "wav", ar |-> audio.frame_rate, audio |-> audio]

JunkFile == [format |-> "bin", ar |-> 0, audio |-> NoAudio]

\* What a successful GET of the URL returns.
Remote(url) ==
    IF \E k \in 1..Len(UrlNames) : UrlNames[k] = url
    THEN WavFile(Catalogue[CHOOSE k \in 1..Len(UrlNames) : UrlNames[k] = url])
    ELSE JunkFile

DownloadOutcomesAnyStorage(st) == {"ok", "HTTPError"}

\* await self.storage.download_to_file(url, path): with no storage object
\* the attribute lookup on None raises; otherwise the GET answers or
\* raise_for_status() raises.
DownloadOutcomes(st) == IF st THEN {"ok", "HTTPError"} ELSE {"AttributeError"}

\* s3_client.upload_fileobj either stores the object or raises.
UploadOutcomes == {"ok", "UploadError"}

MkDTempFixed(ds) == 1

\* tempfile.TemporaryDirectory(): a directory name not in use.
MkDTemp(ds) ==
    CHOOSE n \in 1..(Cardinality(ds) + 1) :
        n \notin ds /\ \A m \in 1..(n - 1) : m \in ds

CleanupOnReturnOnly(ds, d, pc) == IF pc = "returned" THEN ds \ {d} ELSE ds

\* The with block's exit: the directory is removed however the block ends.
Cleanup(ds, d, pc) == ds \ {d}

RemoveTree(fs, ds) == [q \in {x \in DOMAIN fs : x[1] \in ds} |-> fs[q]]

\* open(path, "wb") and write: the directory has to exist.
WriteFile(fs, ds, path, content) ==
    IF path[1] \in ds
    THEN [error |-> NoError, files |-> (path :> content) @@ fs]
    ELSE [error |-> Raise("FileNotFoundError", "open"), files |-> fs]

\* AudioSegment.from_file(path).
FromFile(fs, path) ==
    IF path \notin DOMAIN fs
    THEN [error |-> Raise("FileNotFoundError", "from_file"), audio |-> NoAudio]
    ELSE IF fs[path].format # "wav"
    THEN [error |-> Raise("CouldntDecodeError", "from_file"), audio |-> NoAudio]
    ELSE [error |-> NoError, audio |-> fs[path].audio]

GetPublicUrl(key) == [scheme |-> "https", dir |-> 0, name |-> key]

LocalPath(path) == [scheme |-> "file", dir |-> path[1], name |-> path[2]]

\* StorageService.upload_file(key, path, content_type).
UploadFile(bk, fs, key, path, content_type, up) ==
    IF up = "ok"
    THEN [error |-> NoError,
          bucket |-> (key :> [content_type |-> content_type, body |-> fs[path]]) @@ bk,
          url |-> GetPublicUrl(key)]
    ELSE [error |-> Raise("UploadError", "upload_file"), bucket |-> bk,
          url |-> GetPublicUrl(key)]

(***************************************************************************)
(* A request in flight.  The operators below take and return a world       *)
(* w = [rq, dirs, files, bucket]: the request's record (its position and   *)
(* local variables) and the shared state it acts on.  Each runs the code   *)
(* from one point to the next await, the return or the raise.              *)
(***************************************************************************)
NoResult == <<>>

IdleReq ==
    [pc |-> "idle", kind |-> "none", input |-> <<>>, profile_settings |-> <<>>,
     tmpdir |-> 0, stems |-> <<>>, i |-> 0, mixed |-> NoAudio,
     combined |-> NoAudio, j |-> 0, mastered |-> NoAudio, entries |-> <<>>,
     uploads |-> 0, put |-> JunkFile, error |-> NoError, result |-> NoResult]

\* An exception leaves process(); master_audio turns it into a 500.
Fail(w, err) ==
    LET ds == Cleanup(w.dirs, w.rq.tmpdir, "raised")
    IN  [w EXCEPT !.rq = [w.rq EXCEPT !.pc = "raised", !.error = err],
                  !.dirs = ds,
                  !.files = RemoveTree(w.files, ds)]

Return(w, result) ==
    LET ds == Cleanup(w.dirs, w.rq.tmpdir, "returned")
    IN  [w EXCEPT !.rq = [w.rq EXCEPT !.pc = "returned", !.result = result],
                  !.dirs = ds,
                  !.files = RemoveTree(w.files, ds)]

EnterTmpDir(w) ==
    LET d == MkDTemp(w.dirs)
    IN  [w EXCEPT !.rq = [w.rq EXCEPT !.tmpdir = d], !.dirs = w.dirs \cup {d}]

ResolveProfileNoFallback(profile) == profile

\* if profile not in PROFILES: profile = "clean"
ResolveProfile(profile) ==
    IF profile \notin DOMAIN PROFILES THEN "clean" ELSE profile

\* Metrics, export and upload (process, from "Calculate metrics" on).
Publish(w, mastered, up) ==
    LET rq == w.rq
        peak_db == MaxDbfs(mastered)
        lufs == CalculateLufs(mastered)
        duration == MsLen(mastered)
        output_path == <<rq.tmpdir, "master.wav", 0>>
        ex == WriteFile(w.files, w.dirs, output_path,
                        [format |-> "wav", ar |-> 48000, audio |-> mastered])
        u == UploadFile(w.bucket, ex.files, rq.input.output_key, output_path,
                        "audio/wav", up)
        w1 == [w EXCEPT !.rq = [rq EXCEPT !.mastered = mastered], !.files = ex.files]
        w2 == [w1 EXCEPT !.rq = [w1.rq EXCEPT !.uploads = rq.uploads + 1,
                                              !.put = IF u.error = NoError
                                                      THEN ex.files[output_path]
                                                      ELSE rq.put],
                         !.bucket = u.bucket]
        Result(url) == [output_url |-> url, duration |-> duration,
                        peak_db |-> peak_db, lufs |-> lufs]
    IN  IF ex.error # NoError THEN Fail(w1, ex.error)
        ELSE IF ~storage THEN Return(w1, Result(LocalPath(output_path)))
        ELSE IF u.error # NoError THEN Fail(w2, u.error)
        ELSE Return(w2, Result(u.url))

CompleteUploadFirst(w, up) ==
    LET m == ApplyMastering(w.rq.mixed, w.rq.profile_settings)
        p == Publish(w, w.rq.mixed, up)
    IN  IF p.rq.pc = "raised" THEN p
        ELSE IF m.error # NoError
        THEN [p EXCEPT !.rq.pc = "raised", !.rq.error = m.error, !.rq.result = NoResult]
        ELSE Publish(w, m.audio, up)

\* process, from "Apply mastering chain" on.
Complete(w, up) ==
    LET m == ApplyMastering(w.rq.mixed, w.rq.profile_settings)
    IN  IF m.error # NoError THEN Fail(w, m.error) ELSE Publish(w, m.audio, up)

AfterVocalsVocalBase(w, up) ==
    LET c == w.rq.combined
    IN  IF c # NoAudio /\ MsLen(c) # 0
        THEN Complete([w EXCEPT !.rq.mixed = Overlay(c, w.rq.mixed)], up)
        ELSE Complete(w, up)

\* After _load_vocals returned: if vocal_audio: mixed = mixed.overlay(...).
\* An AudioSegment is true when its len() is not 0; None is false.
AfterVocals(w, up) ==
    LET c == w.rq.combined
    IN  IF c # NoAudio /\ MsLen(c) # 0
        THEN Complete([w EXCEPT !.rq.mixed = Overlay(w.rq.mixed, c)], up)
        ELSE Complete(w, up)

\* _load_vocals: the loop over the takes, at take j.
NextVocal(w, up) ==
    IF w.rq.j <= Len(w.rq.input.vocal_takes)
    THEN [w EXCEPT !.rq.pc = "vocals"]
    ELSE AfterVocals(w, up)

\* if vocal_takes: vocal_audio = await self._load_vocals(tmpdir, vocal_takes),
\* which returns None at once without takes or without storage.
LoadVocals(w, up) ==
    IF w.rq.input.vocal_takes = <<>> THEN Complete(w, up)
    ELSE IF ~storage THEN AfterVocals(w, up)
    ELSE NextVocal([w EXCEPT !.rq.j = 1, !.rq.combined = NoAudio], up)

\* process, from "Apply mix settings and combine" on.
AfterStems(w, up) ==
    LET m == MixStems(w.rq.stems, w.rq.input.mix_settings)
    IN  IF m.error # NoError THEN Fail(w, m.error)
        ELSE LoadVocals([w EXCEPT !.rq.mixed = m.audio], up)

\* The loop over stem_urls, at stem i.
NextStem(w, up) ==
    IF w.rq.i <= Len(w.rq.input.stem_urls)
    THEN IF "AttributeError" \in DownloadOutcomes(storage)
         THEN Fail(w, Raise("AttributeError", "download_to_file"))
         ELSE [w EXCEPT !.rq.pc = "stems"]
    ELSE AfterStems(w, up)

\* MasterService.process up to its first await.
StartMaster(w, input, up) ==
    LET profile == ResolveProfile(input.profile)
        w0 == [w EXCEPT !.rq = [IdleReq EXCEPT !.kind = "master", !.input = input]]
    IN  IF profile \notin DOMAIN PROFILES
        THEN Fail(w0, Raise("KeyError", "PROFILES"))
        ELSE NextStem(EnterTmpDir([w0 EXCEPT !.rq.profile_settings = PROFILES[profile],
                                             !.rq.i = 1]),
                      up)

\* A stem's download has answered: write the file, decode it, go on.
StemResumed(w, out, up) ==
    LET rq == w.rq
        stem_path == <<rq.tmpdir, "stem", rq.i>>
        wr == WriteFile(w.files, w.dirs, stem_path, Remote(rq.input.stem_urls[rq.i]))
        dec == FromFile(wr.files, stem_path)
    IN  IF out # "ok" THEN Fail(w, Raise(out, "download"))
        ELSE IF wr.error # NoError THEN Fail(w, wr.error)
        ELSE IF dec.error # NoError THEN Fail([w EXCEPT !.files = wr.files], dec.error)
        ELSE NextStem([w EXCEPT !.files = wr.files,
                                !.rq.stems = Append(rq.stems, dec.audio),
                                !.rq.i = rq.i + 1],
                      up)

\* A take's download has answered: decode, apply the volume, combine.
VocalResumed(w, out, up) ==
    LET rq == w.rq
        take == rq.input.vocal_takes[rq.j]
        vocal_path == <<rq.tmpdir, "vocal", rq.j>>
        wr == WriteFile(w.files, w.dirs, vocal_path, Remote(take.url))
        dec == FromFile(wr.files, vocal_path)
        volume == Get(take, "volume", 1000)
        vocal == IF volume # 1000 THEN VolumeGain(dec.audio, volume) ELSE dec.audio
        combined == IF rq.combined = NoAudio THEN vocal ELSE Overlay(rq.combined, vocal)
    IN  IF out # "ok" THEN Fail(w, Raise(out, "download"))
        ELSE IF wr.error # NoError THEN Fail(w, wr.error)
        ELSE IF dec.error # NoError THEN Fail([w EXCEPT !.files = wr.files], dec.error)
        ELSE NextVocal([w EXCEPT !.files = wr.files,
                                 !.rq.combined = combined,
                                 !.rq.j = rq.j + 1],
                       up)

(***************************************************************************)
(* EncoderService.process.                                                 *)
(***************************************************************************)
Lower(format) ==
    CASE format = "MP3" -> "mp3"
      [] format = "WAV" -> "wav"
      [] OTHER -> format

SampleWidthMap(bit_depth) ==
    CASE bit_depth = 16 -> 2
      [] bit_depth = 24 -> 3
      [] bit_depth = 32 -> 4
      [] OTHER -> 3

\* _encode_mp3 and _encode_wav: the file written and its content type.
Encoded(audio, input) ==
    IF Lower(input.format) = "mp3"
    THEN [name |-> "output.mp3", content_type |-> "audio/mpeg",
          body |-> [format |-> "mp3", ar |-> input.quality, audio |-> audio]]
    ELSE [name |-> "output.wav", content_type |-> "audio/wav",
          body |-> [format |-> "wav", ar |-> input.sample_rate,
                    audio |-> SetSampleWidth(SetFrameRate(audio, input.sample_rate),
                                             SampleWidthMap(input.bit_depth))]]

\* os.path.getsize of an encoded file: its frames' bytes.
FileSize(body) == FrameCount(body.audio) * body.audio.channels * body.audio.sample_width

StartEncode(w, input) ==
    LET w1 == EnterTmpDir([w EXCEPT !.rq = [IdleReq EXCEPT !.kind = "encode",
                                                           !.input = input]])
    IN  IF storage THEN [w1 EXCEPT !.rq.pc = "encode"]
        ELSE Fail(w1, Raise("ValueError", "storage"))

EncodeResumed(w, out, up) ==
    LET rq == w.rq
        input_path == <<rq.tmpdir, "input.wav", 0>>
        wr == WriteFile(w.files, w.dirs, input_path, Remote(rq.input.input_url))
        dec == FromFile(wr.files, input_path)
        enc == Encoded(dec.audio, rq.input)
        output_path == <<rq.tmpdir, enc.name, 0>>
        ex == WriteFile(wr.files, w.dirs, output_path, enc.body)
        u == UploadFile(w.bucket, ex.files, rq.input.output_key, output_path,
                        enc.content_type, up)
        w1 == [w EXCEPT !.files = wr.files]
        w2 == [w EXCEPT !.files = ex.files, !.rq.uploads = rq.uploads + 1,
                        !.bucket = u.bucket]
    IN  IF out # "ok" THEN Fail(w, Raise(out, "download"))
        ELSE IF wr.error # NoError THEN Fail(w, wr.error)
        ELSE IF dec.error # NoError THEN Fail(w1, dec.error)
        ELSE IF Lower(rq.input.format) \notin {"mp3", "wav"}
        THEN Fail(w1, Raise("ValueError", "format"))
        ELSE IF u.error # NoError THEN Fail(w2, u.error)
        ELSE Return(w2, [output_url |-> u.url, format |-> Lower(rq.input.format),
                         size |-> FileSize(enc.body)])

(***************************************************************************)
(* ArchiverService.process.                                                *)
(***************************************************************************)
ZipPath(rq) == <<rq.tmpdir, "archive.zip", 0>>

ZipBody(entries) == [format |-> "zip", ar |-> Len(entries), audio |-> NoAudio]

\* After the loop: the archive is closed, measured and uploaded.
FinishZip(w, up) ==
    LET rq == w.rq
        u == UploadFile(w.bucket, w.files, rq.input.output_key, ZipPath(rq),
                        "application/zip", up)
        w2 == [w EXCEPT !.rq.uploads = rq.uploads + 1, !.bucket = u.bucket]
        Result(url) == [output_url |-> url, size |-> Len(rq.entries),
                        file_count |-> Len(rq.input.files)]
    IN  IF ~storage THEN Return(w, Result(LocalPath(ZipPath(rq))))
        ELSE IF u.error # NoError THEN Fail(w2, u.error)
        ELSE Return(w2, Result(u.url))

\* The loop over the file entries, at entry i: an entry without url or
\* filename is skipped, and without storage nothing is downloaded.
RECURSIVE NextEntry(_, _)
NextEntry(w, up) ==
    LET rq == w.rq
    IN  IF rq.i > Len(rq.input.files) THEN FinishZip(w, up)
        ELSE IF rq.input.files[rq.i].url = "" \/ rq.input.files[rq.i].filename = ""
                \/ ~storage
        THEN NextEntry([w EXCEPT !.rq.i = rq.i + 1], up)
        ELSE [w EXCEPT !.rq.pc = "zip"]

StartZip(w, input, up) ==
    LET w0 == [w EXCEPT !.rq = [IdleReq EXCEPT !.kind = "zip", !.input = input]]
        w1 == EnterTmpDir(w0)
        wr == WriteFile(w1.files, w1.dirs, ZipPath(w1.rq), ZipBody(<<>>))
    IN  IF input.files = <<>> THEN Fail(w0, Raise("ValueError", "files"))
        ELSE NextEntry([w1 EXCEPT !.files = wr.files, !.rq.i = 1], up)

ZipResumed(w, out, up) ==
    LET rq == w.rq
        entry == rq.input.files[rq.i]
        temp_path == <<rq.tmpdir, entry.filename, 0>>
        wr == WriteFile(w.files, w.dirs, temp_path, Remote(entry.url))
        entries == Append(rq.entries, entry.filename)
        zw == WriteFile(wr.files, w.dirs, ZipPath(rq), ZipBody(entries))
    IN  IF out # "ok" THEN Fail(w, Raise(out, "download"))
        ELSE IF wr.error # NoError THEN Fail(w, wr.error)
        ELSE NextEntry([w EXCEPT !.files = zw.files, !.rq.entries = entries,
                                 !.rq.i = rq.i + 1],
                       up)

(***************************************************************************)
(* The inputs the model draws from.                                        *)
(***************************************************************************)
Tones == 1..Min2(NumTones, Len(Catalogue))

SeqsUpTo(S, n) == UNION {[1..k -> S] : k \in 0..n}

SettingChoices ==
    { <<>>,
      [mute |-> TRUE],
      [solo |-> TRUE],
      [volume |-> 1000, pan |-> 0, mute |-> FALSE, solo |-> FALSE],
      [volume |-> 500, pan |-> -1000, mute |-> FALSE, solo |-> TRUE],
      [mute |-> TRUE, solo |-> TRUE],
      [volume |-> 0, pan |-> 2000, mute |-> FALSE, solo |-> FALSE] }

MixCalls ==
    { [fn |-> "_mix_stems",
       stems |-> [k \in 1..Len(t) |-> Catalogue[t[k]]],
       mix_settings |-> s] :
      t \in SeqsUpTo(Tones, MaxStems), s \in SeqsUpTo(SettingChoices, MaxSettings) }

SampleChoices == {-32768, -3000, 0, 1, 20000, 32767}

FrameChoices(ch) ==
    IF ch = 1 THEN {<<s>> : s \in SampleChoices}
    ELSE {<<s, -1 - s>> : s \in SampleChoices}

Buffers ==
    { [frame_rate |-> r, channels |-> ch, sample_width |-> 2, data |-> d] :
      r \in {11025, 22050}, ch \in {1},
      d \in SeqsUpTo(FrameChoices(1), MaxBufFrames) }
    \cup
    { [frame_rate |-> r, channels |-> 2, sample_width |-> 2, data |-> d] :
      r \in {22050}, d \in SeqsUpTo(FrameChoices(2), MaxBufFrames - 1) }

MasterCalls ==
    { [fn |-> "_apply_mastering", audio |-> b, profile |-> p] :
      b \in Buffers, p \in DOMAIN PROFILES }

PipelineUrls == {"b.wav", "c.wav", "d.wav", "notes.txt"}

PipelineSettings ==
    { <<>>,
      << [volume |-> 1000, pan |-> 0, mute |-> FALSE, solo |-> FALSE],
         [volume |-> 500, pan |-> 1000, mute |-> TRUE, solo |-> FALSE] >>,
      << [volume |-> 0, pan |-> 2000, mute |-> FALSE, solo |-> FALSE] >> }

ProfileNames == {"clean", "warm", "loud", "disco"}

TakeChoices ==
    { [url |-> "b.wav", volume |-> 1000, pan |-> 0],
      [url |-> "c.wav", volume |-> 500, pan |-> 0] }

\* The requests a single client sends, and those of two concurrent clients.
MasterPayloads ==
    IF Cardinality(slots) = 1
    THEN { [stem_urls |-> u, mix_settings |-> s, profile |-> p, vocal_takes |-> t,
            output_key |-> "k1"] :
           u \in SeqsUpTo(PipelineUrls, MaxStems), s \in PipelineSettings,
           p \in ProfileNames, t \in SeqsUpTo(TakeChoices, MaxTakes) }
    ELSE { [stem_urls |-> u, mix_settings |-> <<>>, profile |-> p, vocal_takes |-> t,
            output_key |-> k] :
           u \in SeqsUpTo({"b.wav", "c.wav"}, MaxConcStems), p \in {"clean"},
           t \in {<<>>, <<[url |-> "c.wav", volume |-> 500, pan |-> 0]>>},
           k \in {"k1", "k2"} }

EncodePayloads ==
    { [input_url |-> u, format |-> f, quality |-> 320, sample_rate |-> 48000,
       bit_depth |-> 24, metadata |-> <<>>, output_key |-> "k1"] :
      u \in {"b.wav", "notes.txt"}, f \in {"MP3", "wav", "flac"} }

EntryChoices ==
    { [url |-> "b.wav", filename |-> "song.wav"],
      [url |-> "notes.txt", filename |-> "notes.txt"],
      [url |-> "", filename |-> "missing.wav"] }

ZipPayloads ==
    { [files |-> f, output_key |-> "k1"] : f \in SeqsUpTo(EntryChoices, 2) }

NoCall == [fn |-> "none"]

NoReturn == [fn |-> "none"]

(***************************************************************************)
(* The service: lifespan() builds the services around the storage object   *)
(* (None without R2 credentials); each request then runs from await to     *)
(* await on the one event loop.                                            *)
(***************************************************************************)
Lifespan(clients) ==
    /\ storage \in BOOLEAN
    /\ slots = clients
    /\ req = [r \in clients |-> IdleReq]
    /\ dirs = {}
    /\ files = <<>>
    /\ bucket = <<>>
    /\ call = NoCall
    /\ ret = NoReturn

Init == Lifespan({"r1"})

InitConc == Lifespan({"r1", "r2"})

World(r) == [rq |-> req[r], dirs |-> dirs, files |-> files, bucket |-> bucket]

Apply(r, w) ==
    /\ req' = [req EXCEPT ![r] = w.rq]
    /\ dirs' = w.dirs
    /\ files' = w.files
    /\ bucket' = w.bucket
    /\ UNCHANGED <<storage, slots, call, ret>>

\* POST /master
MasterAudio(r) ==
    /\ r \in slots
    /\ req[r].pc = "idle"
    /\ \E input \in MasterPayloads, up \in UploadOutcomes :
          Apply(r, StartMaster(World(r), input, up))

StemDownloaded(r) ==
    /\ r \in slots
    /\ req[r].pc = "stems"
    /\ \E out \in DownloadOutcomes(storage) \ {"AttributeError"}, up \in UploadOutcomes :
          Apply(r, StemResumed(World(r), out, up))

VocalDownloaded(r) ==
    /\ r \in slots
    /\ req[r].pc = "vocals"
    /\ \E out \in DownloadOutcomes(storage) \ {"AttributeError"}, up \in UploadOutcomes :
          Apply(r, VocalResumed(World(r), out, up))

\* POST /encode
EncodeAudio(r) ==
    /\ r \in slots
    /\ req[r].pc = "idle"
    /\ \E input \in EncodePayloads : Apply(r, StartEncode(World(r), input))

EncodeDownloaded(r) ==
    /\ r \in slots
    /\ req[r].pc = "encode"
    /\ \E out \in DownloadOutcomes(storage) \ {"AttributeError"}, up \in UploadOutcomes :
          Apply(r, EncodeResumed(World(r), out, up))

\* POST /zip
CreateZip(r) ==
    /\ r \in slots
    /\ req[r].pc = "idle"
    /\ \E input \in ZipPayloads, up \in UploadOutcomes :
          Apply(r, StartZip(World(r), input, up))

ZipDownloaded(r) ==
    /\ r \in slots
    /\ req[r].pc = "zip"
    /\ \E out \in DownloadOutcomes(storage) \ {"AttributeError"}, up \in UploadOutcomes :
          Apply(r, ZipResumed(World(r), out, up))

Clients == {"r1", "r2"}

NextMaster ==
    \/ \E r \in Clients : MasterAudio(r)
    \/ \E r \in Clients : StemDownloaded(r)
    \/ \E r \in Clients : VocalDownloaded(r)

Next ==
    \/ \E r \in Clients : MasterAudio(r)
    \/ \E r \in Clients : StemDownloaded(r)
    \/ \E r \in Clients : VocalDownloaded(r)
    \/ \E r \in Clients : EncodeAudio(r)
    \/ \E r \in Clients : EncodeDownloaded(r)
    \/ \E r \in Clients : CreateZip(r)
    \/ \E r \in Clients : ZipDownloaded(r)

Spec == Init /\ [][Next]_vars

SpecConc == InitConc /\ [][NextMaster]_vars

(***************************************************************************)
(* The pure functions called on inputs of their own.                       *)
(***************************************************************************)
InitFn ==
    /\ storage = FALSE
    /\ slots = {}
    /\ req = <<>>
    /\ dirs = {}
    /\ files = <<>>
    /\ bucket = <<>>
    /\ call \in MixCalls \cup MasterCalls
    /\ ret = NoReturn

CallMixStems ==
    /\ call.fn = "_mix_stems"
    /\ ret = NoReturn
    /\ ret' = [fn |-> "_mix_stems"] @@ MixStems(call.stems, call.mix_settings)
    /\ UNCHANGED <<storage, slots, req, dirs, files, bucket, call>>

CallApplyMastering ==
    /\ call.fn = "_apply_mastering"
    /\ ret = NoReturn
    /\ ret' = [fn |-> "_apply_mastering"]
                  @@ ApplyMastering(call.audio, PROFILES[call.profile])
    /\ UNCHANGED <<storage, slots, req, dirs, files, bucket, call>>

NextFn == CallMixStems \/ CallApplyMastering

SpecFn == InitFn /\ [][NextFn]_vars

(***************************************************************************)
(* The claims.                                                             *)
(***************************************************************************)

\* C1: whenever _mix_stems returns a buffer, the buffer's length is the
\* maximum of the stems' lengths, whatever the settings mute or solo.
C1_MixLengthIsMax ==
    (ret.fn = "_mix_stems" /\ ret.error = NoError)
        => MsLen(ret.audio) = MaxLength(call.stems)

\* _mix_stems has returned a mix in which the one longest stem was left out
\* and another stem was overlaid.
C1_Witness ==
    /\ ret.fn = "_mix_stems"
    /\ ret.error = NoError
    /\ ret.overlaid # {}
    /\ \E i \in 1..Len(call.stems) :
          /\ i \notin ret.overlaid
          /\ \A k \in 1..Len(call.stems) :
                k # i => MsLen(call.stems[k]) < MsLen(call.stems[i])

MuteOf(mix_settings, i) ==
    i <= Len(mix_settings) /\ "mute" \in DOMAIN mix_settings[i] /\ mix_settings[i].mute

SoloOf(mix_settings, i) ==
    i <= Len(mix_settings) /\ "solo" \in DOMAIN mix_settings[i] /\ mix_settings[i].solo

\* C2: stem i is overlaid onto the mix exactly when it is not muted and
\* either no entry of the whole settings list is soloed or stem i is; a
\* stem without an entry counts as neither muted nor soloed, and a mix onto
\* which nothing was overlaid is silent.
C2_ContributesIff ==
    (ret.fn = "_mix_stems" /\ ret.error = NoError)
        => /\ \A i \in 1..Len(call.stems) :
                 i \in ret.overlaid
                     <=> /\ ~MuteOf(call.mix_settings, i)
                         /\ \/ \A k \in 1..Len(call.mix_settings) :
                                  ~SoloOf(call.mix_settings, k)
                            \/ SoloOf(call.mix_settings, i)
           /\ ret.overlaid = {} => MaxSample(ret.audio) = 0

\* A soloed stem was overlaid while an unmuted stem without a settings
\* entry was suppressed by the solo.
C2_Witness ==
    /\ ret.fn = "_mix_stems"
    /\ ret.error = NoError
    /\ \E i, k \in 1..Len(call.stems) :
          /\ i \in ret.overlaid
          /\ SoloOf(call.mix_settings, i)
          /\ k \notin ret.overlaid
          /\ k > Len(call.mix_settings)

\* C3: a mastering request without stems ends with the ValueError of
\* _mix_stems and no result, whatever its other fields and the storage.
C3_EmptyStemsRejected ==
    \A r \in slots :
        (req[r].kind = "master" /\ req[r].input.stem_urls = <<>>)
            => /\ req[r].pc = "raised"
               /\ req[r].error = Raise("ValueError", "_mix_stems")
               /\ req[r].result = NoResult

\* A request without stems, with takes and an unknown profile, has failed
\* on a configured service.
C3_Witness ==
    \E r \in slots :
        /\ storage
        /\ req[r].kind = "master"
        /\ req[r].input.stem_urls = <<>>
        /\ req[r].input.vocal_takes # <<>>
        /\ req[r].input.profile = "disco"
        /\ req[r].pc = "raised"

\* C4: a mastering request uploads at most once, and only when every stem
\* and take is downloaded and the master is computed; while it is not
\* returned nothing is stored under its output_key, and a request that
\* failed after its upload call failed in that call.
C4_UploadOnlyAtEnd ==
    \A r \in slots :
        req[r].kind = "master"
            => /\ req[r].uploads <= 1
               /\ req[r].uploads = 1
                     => /\ Len(req[r].stems) = Len(req[r].input.stem_urls)
                        /\ req[r].input.vocal_takes # <<>>
                              => req[r].j = Len(req[r].input.vocal_takes) + 1
                        /\ req[r].mastered # NoAudio
                        /\ req[r].pc \in {"returned", "raised"}
               /\ req[r].pc # "returned"
                     => req[r].input.output_key \notin DOMAIN bucket
               /\ (req[r].pc = "raised" /\ req[r].uploads = 1)
                     => req[r].error.type = "UploadError"
               /\ req[r].pc = "returned"
                     => /\ req[r].uploads = 1
                        /\ bucket[req[r].input.output_key].body.audio = req[r].mastered

\* A request failed in the mastering chain after all its downloads and
\* its mix: nothing was uploaded.
C4_Witness ==
    \E r \in slots :
        /\ req[r].kind = "master"
        /\ req[r].pc = "raised"
        /\ req[r].error.type = "IndexError"
        /\ req[r].input.vocal_takes # <<>>
        /\ req[r].uploads = 0
        /\ bucket = <<>>

\* C5: the peak of the buffer _apply_mastering returns is at most the
\* amplitude of the profile's limiter threshold, within one sample step.
C5_PeakWithinLimiter ==
    (ret.fn = "_apply_mastering" /\ ret.error = NoError)
        => (MaxSample(ret.audio) - 1) * 10000
               <= MaxPossibleAmplitude(ret.audio)
                      * DbToFloat(PROFILES[call.profile].limiter_threshold)

\* A quiet buffer was mastered with the loud profile: normalization raised
\* its peak and the limiter brought it to the threshold.
C5_Witness ==
    /\ ret.fn = "_apply_mastering"
    /\ ret.error = NoError
    /\ call.profile = "loud"
    /\ MaxSample(call.audio) = 1
    /\ MaxSample(ret.audio) > 20000

\* The takes of a request, each decoded and with its volume applied,
\* combined in order.
RECURSIVE CombineTakes(_, _, _)
CombineTakes(takes, j, combined) ==
    IF j > Len(takes) THEN [error |-> NoError, audio |-> combined]
    ELSE LET f == Remote(takes[j].url)
             v == IF takes[j].volume # 1000 THEN VolumeGain(f.audio, takes[j].volume)
                  ELSE f.audio
         IN  IF f.format # "wav"
             THEN [error |-> Raise("CouldntDecodeError", "from_file"), audio |-> NoAudio]
             ELSE CombineTakes(takes, j + 1,
                               IF combined = NoAudio THEN v ELSE Overlay(combined, v))

\* What a mastering request with this input ends with when it runs alone
\* and every download and the upload answer: the request's end, its error
\* or result, and the object it uploads.
Alone(input, st) ==
    LET urls == input.stem_urls
        bad == {k \in 1..Len(urls) : Remote(urls[k]).format # "wav"}
        mix == MixStems([k \in 1..Len(urls) |-> Remote(urls[k]).audio],
                        input.mix_settings)
        voc == IF input.vocal_takes = <<>> \/ ~st
               THEN [error |-> NoError, audio |-> NoAudio]
               ELSE CombineTakes(input.vocal_takes, 1, NoAudio)
        mixed == IF voc.audio # NoAudio /\ MsLen(voc.audio) # 0
                 THEN Overlay(mix.audio, voc.audio) ELSE mix.audio
        m == ApplyMastering(mixed, PROFILES[input.profile])
        Raised(e) == [pc |-> "raised", error |-> e, result |-> NoResult, put |-> JunkFile]
    IN  IF urls # <<>> /\ ~st THEN Raised(Raise("AttributeError", "download_to_file"))
        ELSE IF bad # {} THEN Raised(Raise("CouldntDecodeError", "from_file"))
        ELSE IF mix.error # NoError THEN Raised(mix.error)
        ELSE IF voc.error # NoError THEN Raised(voc.error)
        ELSE IF m.error # NoError THEN Raised(m.error)
        ELSE [pc |-> "returned", error |-> NoError,
              result |-> [output_url |-> GetPublicUrl(input.output_key),
                          duration |-> MsLen(m.audio),
                          peak_db |-> MaxDbfs(m.audio),
                          lufs |-> CalculateLufs(m.audio)],
              put |-> [format |-> "wav", ar |-> 48000, audio |-> m.audio]]

Outcome(q) == [pc |-> q.pc, error |-> q.error, result |-> q.result, put |-> q.put]

Ended(q) == q.pc \in {"returned", "raised"}

EnvironmentError(q) == q.error.type \in {"HTTPError", "UploadError"}

\* C6: a mastering request whose profile name is none of clean, warm, loud
\* runs with the clean settings, raises no profile error and, unless a
\* download or the upload fails, ends as the same request with profile
\* clean ends.
C6_UnknownProfileIsClean ==
    \A r \in slots :
        (req[r].kind = "master" /\ req[r].input.profile \notin {"clean", "warm", "loud"})
            => /\ req[r].error.type # "KeyError"
               /\ req[r].tmpdir # 0 => req[r].profile_settings = PROFILES["clean"]
               /\ (Ended(req[r]) /\ ~EnvironmentError(req[r]))
                     => Outcome(req[r])
                            = Alone([req[r].input EXCEPT !.profile = "clean"], storage)

\* A request with profile disco has returned a master that the loud profile
\* would not have produced.
C6_Witness ==
    \E r \in slots :
        /\ req[r].kind = "master"
        /\ req[r].input.profile = "disco"
        /\ req[r].pc = "returned"
        /\ req[r].mastered
               # ApplyMastering(req[r].mixed, PROFILES["loud"]).audio

\* C7: without a storage object no mastering request gets past its start:
\* none waits for a download, none returns, none has a result.
C7_NoStorageNoResult ==
    ~storage
        => \A r \in slots :
               req[r].kind = "master"
                   => /\ req[r].pc = "raised"
                      /\ req[r].result = NoResult
                      /\ req[r].uploads = 0

\* Without storage a request with stems has failed at its first download.
C7_Witness ==
    \E r \in slots :
        /\ ~storage
        /\ req[r].kind = "master"
        /\ req[r].input.stem_urls # <<>>
        /\ req[r].pc = "raised"
        /\ req[r].error = Raise("AttributeError", "download_to_file")

TakeLength(take) == MsLen(Remote(take.url).audio)

\* C8: once every take of a request is combined, the combined vocal buffer
\* is as long as the longest take.
C8_CombinedLengthIsMax ==
    \A r \in slots :
        (/\ req[r].kind = "master"
         /\ req[r].input.vocal_takes # <<>>
         /\ req[r].j = Len(req[r].input.vocal_takes) + 1)
            => MsLen(req[r].combined)
                   = MaxOfSet({TakeLength(req[r].input.vocal_takes[k]) :
                                  k \in 1..Len(req[r].input.vocal_takes)})

\* C9: when a request of any service has ended, returned or raised, its
\* scratch directory and every file in it are gone, and no directory
\* exists that is not the scratch directory of a request in flight.
C9_ScratchReleased ==
    /\ \A r \in slots :
          Ended(req[r])
              => /\ req[r].tmpdir \notin dirs
                 /\ \A p \in DOMAIN files : p[1] # req[r].tmpdir
    /\ \A d \in dirs : \E r \in slots : ~Ended(req[r]) /\ req[r].tmpdir = d

\* A request that had created its scratch directory and written files to
\* it has failed in the upload.
C9_Witness ==
    \E r \in slots :
        /\ req[r].pc = "raised"
        /\ req[r].error.type = "UploadError"
        /\ req[r].tmpdir # 0
        /\ req[r].kind = "zip"

InFlight(q) == q.pc \in {"stems", "vocals"}

\* The remote file a scratch file of request q must hold.
OwnFile(q, p) ==
    IF p[2] = "stem" THEN Remote(q.input.stem_urls[p[3]])
    ELSE Remote(q.input.vocal_takes[p[3]].url)

\* C10: two mastering requests in flight have different scratch
\* directories; every scratch file lies in the directory of a request in
\* flight and holds what that request downloaded; and a request that ended
\* without a failed download or upload ended with the error or the result
\* and uploaded object it has when it runs alone.
C10_RequestsIndependent ==
    /\ \A r1, r2 \in slots :
          (r1 # r2 /\ InFlight(req[r1]) /\ InFlight(req[r2]))
              => req[r1].tmpdir # req[r2].tmpdir
    /\ \A p \in DOMAIN files :
          \E r \in slots :
              /\ InFlight(req[r])
              /\ req[r].tmpdir = p[1]
              /\ files[p] = OwnFile(req[r], p)
    /\ \A r \in slots :
          (Ended(req[r]) /\ ~EnvironmentError(req[r]))
              => Outcome(req[r]) = Alone(req[r].input, storage)

\* One request has returned its result while the other, with other stems
\* and the same output key, is still waiting for a vocal take.
C10_Witness ==
    \E r1, r2 \in slots :
        /\ req[r1].pc = "returned"
        /\ req[r2].pc = "vocals"
        /\ req[r1].input.stem_urls # req[r2].input.stem_urls
        /\ req[r1].input.output_key = req[r2].input.output_key
        /\ req[r1].tmpdir # req[r2].tmpdir

Longest(stems) == {i \in 1..Len(stems) : MsLen(stems[i]) = MaxLength(stems)}

\* C11: the buffer _mix_stems returns has the channel count and the sample
\* rate of a longest stem, also when no stem was overlaid onto the silence.
C11_MixFormatIsLongest ==
    (ret.fn = "_mix_stems" /\ ret.error = NoError)
        => \E i \in Longest(call.stems) :
               /\ ret.audio.channels = call.stems[i].channels
               /\ ret.audio.frame_rate = call.stems[i].frame_rate

\* The length of the longest stem the request names, as decoded.
LongestStemLength(input) ==
    MaxOfSet({MsLen(Remote(input.stem_urls[k]).audio) : k \in 1..Len(input.stem_urls)})

\* C12: a mastering request that returned has a mastered buffer, and reports
\* a duration, of the length of its longest stem, whatever its vocal takes:
\* neither the vocal overlay nor a mastering stage changes the mix's length.
C12_MasterLengthIsLongestStem ==
    \A r \in slots :
        (req[r].kind = "master" /\ req[r].pc = "returned")
            => /\ MsLen(req[r].mixed) = LongestStemLength(req[r].input)
               /\ MsLen(req[r].mastered) = LongestStemLength(req[r].input)
               /\ req[r].result.duration = LongestStemLength(req[r].input)

\* A request returned whose combined vocal, longer than every stem, was
\* overlaid onto the mix and whose profile filters and attenuates.
C12_Witness ==
    \E r \in slots :
        /\ req[r].kind = "master"
        /\ req[r].pc = "returned"
        /\ req[r].combined # NoAudio
        /\ MsLen(req[r].combined) > LongestStemLength(req[r].input)
        /\ req[r].input.profile = "warm"
        /\ MaxSample(req[r].mixed) # 0

====
